---- MODULE Spec2Model ----
(***************************************************************************)
(* Deploy controller (services/devops/deploy-controller/main.py).         *)
(*                                                                         *)
(* The controller is one asyncio process: the background task             *)
(* auto_deploy_loop and the HTTP handlers share the module-level state     *)
(* and interleave only where the loop really suspends, i.e. at            *)
(* `await get_registry_images()`, `await get_image_digest()` and          *)
(* `await asyncio.sleep()`.  run_kubectl is a blocking subprocess call, so *)
(* get_current_deployments, deploy_service, restart_deployment,           *)
(* rollback_deployment and check_deployment_health (a coroutine without   *)
(* any suspension inside) run to completion inside one step.              *)
(*                                                                         *)
(* The registry and the cluster are the environment.  The registry        *)
(* catalog lists every repository once; timestamps of ActionRecords are   *)
(* left out (no operation reads them).                                     *)
(***************************************************************************)
EXTENDS Integers, Sequences, FiniteSets, TLC

\* ------------------------------------------------------------------ bounds
MaxHistory == 2         \* calls of deploy_service / restart_deployment / rollback_deployment explored
MaxLoopHistory == 3     \* the same, for the loop in the specification that follows a
                        \* service over three calls
MaxLog == 52            \* longest deployment_history handed to GET /api/history
MaxReplicas == 8        \* largest replica count a manifest is rendered for
MaxSeconds == 125       \* latest moment, in seconds, a rollout is let converge or fail at

\* -------------------------------------------------------- program constants
HistoryLimit == 50      \* line 683: deployment_history[-50:]
ContainerPort == 8080   \* line 95
NAMESPACE == "holm"     \* line 27
HealthTimeout == 120    \* line 270: timeout: int = 120
SubprocessTimeout == 60 \* line 115: subprocess.run(..., timeout=60)

\* ------------------------------------------------------------- value sets
Services == {"alpha", "beta"}
Digests  == {"D1", "D2"}
None     == "None"
Unseen   == "unseen"

\* No GET /api/history answered yet; no manifest rendered yet; no health check made
\* yet.
NoResponse == [history |-> << >>, total |-> 0 - 1]
NoManifest == [stage |-> "none"]
NoHealth == [stage |-> "none"]
NoReply == [status |-> 0]

\* An image reference as its path segments: <<"alpha">> or <<"holm", "alpha">>.
Images == {<<s>> : s \in Services} \cup {<<"holm", s>> : s \in Services}

\* What run_kubectl can return: (True, stdout) on exit status 0, otherwise False with
\* an error text (stderr, "Command timed out" after 60 s, or the exception's text).
\* No code inspects the text, so one value stands for the three error texts.
KubectlResults ==
    { [ok |-> TRUE,  out |-> "stdout"],
      [ok |-> FALSE, out |-> "error text"] }

KubectlOk == [ok |-> TRUE, out |-> "stdout"]

\* Outcome of one HTTP request to the registry.
HttpOutcomes == {"200", "non200", "error"}

VARIABLES
    auto_deploy_enabled,   \* module global, line 33
    deployments_state,     \* module global, line 31: name -> stored digest (None: no "digest" key)
    deployment_history,    \* module global, line 32
    last_check_time,       \* module global, line 34: None, or "set" once a pass stamped it
    registry,              \* environment: repositories of the registry catalog, in listing order
    latest,                \* environment: repository -> digest of its "latest" tag
    cluster,               \* environment: names of the deployments in the namespace
    pc,                    \* where auto_deploy_loop is suspended
    registry_images,       \* local of auto_deploy_loop, line 290
    trace,                 \* locals of the for loop, one record per iteration of this pass
    gate,                  \* what line 284 read when the current pass began
    listed,                \* how get_registry_images ended in the current pass
    queried,               \* how get_current_deployments ended in the current pass
    last_seen,             \* digest each repository showed when the loop last examined it
    calls,                 \* every call of deploy_service / restart_deployment / rollback_deployment
    origin,                \* per record of deployment_history: "loop" when the loop appended
                           \* it in the current pass, "other" otherwise
    unhealthy,             \* services whose action by the loop failed the health check, until
                           \* their "latest" tag moves
    epoch,                 \* "boot": the process was never restarted; "restarted": it was,
                           \* and no enabled pass has begun since; "first": the current
                           \* pass is the first enabled one since; "later" afterwards
    response,              \* body of the last answer of GET /api/history
    manifest,              \* the last manifest rendered for kubectl apply, and its parse
    health,                \* the last call of check_deployment_health: rollout, answer
    reply                  \* the last answer of POST /api/deploy or /api/rollback/{name}

vars == << auto_deploy_enabled, deployments_state, deployment_history, last_check_time,
           registry, latest, cluster, pc, registry_images, trace, gate, listed,
           queried, last_seen, calls, origin, unhealthy, epoch, response, manifest,
           health, reply >>

\* ------------------------------------------------------------ pure helpers
Range(f) == { f[i] : i \in DOMAIN f }

ActionRecord(action, service, success, message) ==
    [action |-> action, service |-> service, success |-> success, message |-> message]

\* deploy_service without its else branch (lines 221-229)
deploy_service_success_only(history, service_name, r) ==
    IF r.ok
    THEN Append(history, ActionRecord("deploy", service_name, TRUE, r.out))
    ELSE history

\* lines 204-231
deploy_service(history, service_name, r) ==
    IF r.ok
    THEN Append(history, ActionRecord("deploy", service_name, TRUE, r.out))
    ELSE Append(history, ActionRecord("deploy", service_name, FALSE, r.out))

\* rollback_deployment recording like restart_deployment does, on success only
rollback_deployment_success_only(history, name, r) ==
    IF r.ok
    THEN Append(history, ActionRecord("rollback", name, TRUE, r.out))
    ELSE history

\* rollback_deployment writing its record over the newest one
rollback_deployment_overwriting(history, name, r) ==
    IF history = << >>
    THEN Append(history, ActionRecord("rollback", name, r.ok, r.out))
    ELSE [history EXCEPT ![Len(history)] = ActionRecord("rollback", name, r.ok, r.out)]

\* lines 234-248
rollback_deployment(history, name, r) ==
    Append(history, ActionRecord("rollback", name, r.ok, r.out))

\* lines 251-267: a record is appended on success only
restart_deployment(history, name, r) ==
    IF r.ok
    THEN Append(history, ActionRecord("restart", name, TRUE, r.out))
    ELSE history

\* get_registry_images without the status check of line 131
get_registry_images_unchecked(outcome) ==
    IF outcome = "error" THEN << >> ELSE registry

\* lines 126-139: the catalog on 200, the empty list otherwise
get_registry_images(outcome) ==
    IF outcome = "200" THEN registry ELSE << >>

\* lines 156-169: the digest header on 200, None otherwise
get_image_digest(image, outcome) ==
    IF outcome = "200" /\ image \in DOMAIN latest THEN latest[image] ELSE None

\* get_current_deployments carrying the digests of the cache over into the new map
get_current_deployments_keeping(ok) ==
    IF ok
    THEN [n \in cluster |->
            IF n \in DOMAIN deployments_state THEN deployments_state[n] ELSE None]
    ELSE [n \in {} |-> None]

\* get_current_deployments without the failure branch of lines 177-179
get_current_deployments_unchecked(ok) ==
    [n \in cluster |-> None]

\* lines 172-201: the deployments of the namespace, without any "digest" key;
\* the empty map when kubectl fails
get_current_deployments(ok) ==
    IF ok THEN [n \in cluster |-> None] ELSE [n \in {} |-> None]

\* line 305 taking for new every service this process has not examined before
IsNewService_unseen(service_name, current_deployments) ==
    \/ service_name \notin DOMAIN current_deployments
    \/ last_seen[service_name] = Unseen

\* line 305 taking a service for new again once its rollout failed the health check
IsNewService_unhealthy(service_name, current_deployments) ==
    \/ service_name \notin DOMAIN current_deployments
    \/ service_name \in unhealthy

\* line 305 taking a deployment without a stored digest for a new service
IsNewService_undigested(service_name, current_deployments) ==
    \/ service_name \notin DOMAIN current_deployments
    \/ current_deployments[service_name] = None

\* line 305
IsNewService(service_name, current_deployments) ==
    service_name \notin DOMAIN current_deployments

\* line 317: deployments_state.get(service_name, {}).get("digest")
StoredDigest(state, service_name) ==
    IF service_name \in DOMAIN state THEN state[service_name] ELSE None

\* line 318 comparing the two digests without asking whether they exist
DigestChanged_untested(current_digest, stored_digest) ==
    current_digest # stored_digest

\* line 318 without the test that a stored digest exists
DigestChanged_unguarded(current_digest, stored_digest) ==
    /\ current_digest # None
    /\ current_digest # stored_digest

\* line 318
DigestChanged(current_digest, stored_digest) ==
    /\ current_digest # None
    /\ stored_digest # None
    /\ current_digest # stored_digest

\* lines 327-329 without the assignment
UpdateStoredDigest_skipped(state, service_name, current_digest) ==
    state

\* lines 327-329
UpdateStoredDigest(state, service_name, current_digest) ==
    IF service_name \in DOMAIN state
    THEN [state EXCEPT ![service_name] = current_digest]
    ELSE state

\* lines 604-608: image.replace("holm/", "") when the image starts with "holm/"
ServiceNameOf(image) ==
    IF Len(image) > 1 /\ Head(image) = "holm" THEN image[Len(image)] ELSE image[1]

\* What kubectl can answer for a rollout command on `name`: it cannot succeed on a
\* deployment that does not exist.
RolloutResults(name, clu) ==
    IF name \in clu THEN KubectlResults ELSE { r \in KubectlResults : ~r.ok }

Call(fn, service, r) ==
    [fn |-> fn, service |-> service, ok |-> r.ok, out |-> r.out]

\* `origin` extended for the records that turn history h into history h2.
Tagged(h, h2, by) ==
    origin \o [k \in 1..(Len(h2) - Len(h)) |-> by]

\* ------------------------------------------------------------------- Init
\* The state after import and startup_event: the loop task has read the flag
\* (False, line 33) and sleeps.
Init ==
    /\ auto_deploy_enabled = FALSE
    /\ deployments_state = [n \in {} |-> None]
    /\ deployment_history = << >>
    /\ last_check_time = None
    /\ registry = << >>
    /\ latest = [n \in {} |-> None]
    /\ cluster = {}
    /\ pc = "sleep"
    /\ registry_images = << >>
    /\ trace = << >>
    /\ gate = FALSE
    /\ listed = "pending"
    /\ queried = "pending"
    /\ last_seen = [s \in Services |-> Unseen]
    /\ calls = << >>
    /\ origin = << >>
    /\ unhealthy = {}
    /\ epoch = "boot"
    /\ response = NoResponse
    /\ manifest = NoManifest
    /\ health = NoHealth
    /\ reply = NoReply

\* --------------------------------------------------------- the environment
\* A build pushes an image: a new repository appears in the catalog, or the
\* "latest" tag of a known one moves to another digest.
PushImage(s, d) ==
    /\ IF s \in DOMAIN latest
       THEN /\ latest[s] # d
            /\ latest' = [latest EXCEPT ![s] = d]
            /\ registry' = registry
       ELSE /\ latest' = [n \in DOMAIN latest \cup {s} |-> IF n = s THEN d ELSE latest[n]]
            /\ registry' = Append(registry, s)
    /\ unhealthy' = unhealthy \ {s}
    /\ UNCHANGED << auto_deploy_enabled, deployments_state, deployment_history,
                    last_check_time, cluster, pc, registry_images, trace, gate,
                    listed, queried, last_seen, calls, origin, response, manifest, epoch,
                    health, reply >>

\* ------------------------------------------------------- auto_deploy_loop
\* The repositories the pass that `tr` describes has examined so far.
HandledIn(tr) == { tr[i].service : i \in DOMAIN tr }

Flag(b) == IF b THEN "true" ELSE "false"

\* How the digest observed now compares with the one the previous enabled pass
\* observed for the same repository.
Compare(prior, current_digest) ==
    IF prior \in Digests /\ current_digest \in Digests
    THEN (IF prior = current_digest THEN "same" ELSE "differs")
    ELSE "na"

\* Where the pass that begins stands relative to the last process restart.
NextEpoch(e, enabled) ==
    CASE e = "restarted" /\ enabled -> "first"
      [] e = "first" -> "later"
      [] OTHER -> e

\* line 284 ignoring the flag
GateOpen_always(enabled) == TRUE

\* line 284: if auto_deploy_enabled
GateOpen(enabled) == enabled

\* PassStart of a second loop task, which does not wait for the first one's pass
PassStart_overlapping ==
    /\ gate' = auto_deploy_enabled
    /\ last_seen' = IF gate
                    THEN [s \in Services |->
                            IF s \in HandledIn(trace) THEN last_seen[s] ELSE Unseen]
                    ELSE last_seen
    /\ trace' = << >>
    /\ listed' = "pending"
    /\ queried' = "pending"
    /\ origin' = [k \in DOMAIN origin |-> "other"]
    /\ IF GateOpen(auto_deploy_enabled)
       THEN /\ last_check_time' = "set"
            /\ pc' = "await_registry"
       ELSE /\ last_check_time' = last_check_time
            /\ pc' = "sleep"
    /\ epoch' = NextEpoch(epoch, auto_deploy_enabled)
    /\ UNCHANGED << auto_deploy_enabled, deployments_state, deployment_history,
                    registry, latest, cluster, registry_images, calls,
                    unhealthy, response, manifest, health, reply >>

\* PassStart with an else branch at line 284 that re-reads the cluster into
\* deployments_state when the flag is false
PassStart_refreshing ==
    /\ pc = "sleep"
    /\ gate' = auto_deploy_enabled
    /\ last_seen' = IF gate
                    THEN [s \in Services |->
                            IF s \in HandledIn(trace) THEN last_seen[s] ELSE Unseen]
                    ELSE last_seen
    /\ trace' = << >>
    /\ listed' = "pending"
    /\ queried' = "pending"
    /\ origin' = [k \in DOMAIN origin |-> "other"]
    /\ IF GateOpen(auto_deploy_enabled)
       THEN /\ last_check_time' = "set"
            /\ pc' = "await_registry"
            /\ deployments_state' = deployments_state
       ELSE /\ last_check_time' = last_check_time
            /\ pc' = "sleep"
            /\ deployments_state' = [n \in cluster |-> None]
    /\ epoch' = NextEpoch(epoch, auto_deploy_enabled)
    /\ UNCHANGED << auto_deploy_enabled, deployment_history,
                    registry, latest, cluster, registry_images, calls,
                    unhealthy, response, manifest, health, reply >>

\* lines 283-288 and 334: the sleep ends, the flag is read; an enabled pass stamps
\* last_check_time and suspends in get_registry_images, a disabled one sleeps again.
PassStart ==
    /\ pc = "sleep"
    /\ gate' = auto_deploy_enabled
    /\ last_seen' = IF gate
                    THEN [s \in Services |->
                            IF s \in HandledIn(trace) THEN last_seen[s] ELSE Unseen]
                    ELSE last_seen
    /\ trace' = << >>
    /\ listed' = "pending"
    /\ queried' = "pending"
    /\ origin' = [k \in DOMAIN origin |-> "other"]
    /\ IF GateOpen(auto_deploy_enabled)
       THEN /\ last_check_time' = "set"
            /\ pc' = "await_registry"
       ELSE /\ last_check_time' = last_check_time
            /\ pc' = "sleep"
    /\ epoch' = NextEpoch(epoch, auto_deploy_enabled)
    /\ UNCHANGED << auto_deploy_enabled, deployments_state, deployment_history,
                    registry, latest, cluster, registry_images, calls,
                    unhealthy, response, manifest, health, reply >>

\* lines 290-298: the catalog request returns, the cluster is read (blocking) and
\* becomes deployments_state; the for loop starts or, on an empty list, the pass ends.
RegistryReply ==
    /\ pc = "await_registry"
    /\ \E outcome \in HttpOutcomes, kube_ok \in BOOLEAN :
          LET images == get_registry_images(outcome)
              current_deployments == get_current_deployments(kube_ok)
          IN  /\ registry_images' = images
              /\ listed' = IF outcome = "200" THEN "ok" ELSE "failed"
              /\ queried' = IF kube_ok THEN "ok" ELSE "failed"
              /\ deployments_state' = current_deployments
              /\ pc' = IF images = << >> THEN "sleep" ELSE "await_digest"
    /\ UNCHANGED << auto_deploy_enabled, deployment_history, last_check_time,
                    registry, latest, cluster, trace, gate, last_seen, calls, origin,
                    unhealthy, response, manifest, epoch, health, reply >>

\* lines 308-312 rolling back after a failed deploy or restart as well
RollsBack_on_failure(success, healthy) == ~success \/ ~healthy

\* lines 308-312 and 320-324: if success, the health is awaited; if not healthy,
\* rollback_deployment is called
RollsBack(success, healthy) == success /\ ~healthy

\* line 298 taking up the deployments of the cluster that the list does not name
ImageAt_cluster(images, i) ==
    LET unlisted == cluster \ { images[j] : j \in DOMAIN images }
    IN  IF unlisted # {} THEN CHOOSE n \in unlisted : TRUE ELSE images[i]

\* line 298 walking the list from its end
ImageAt_reversed(images, i) == images[Len(images) + 1 - i]

\* line 298: for image in registry_images
ImageAt(images, i) == images[i]

\* The iteration with a health check that suspends (an asyncio subprocess instead of
\* the blocking subprocess.run): the loop gives way between the health check and
\* the rollback, which is a step of its own.
Iteration_suspending(limit) ==
    \/ /\ pc = "await_digest"
       /\ \E outcome \in HttpOutcomes, r1 \in KubectlResults, healthy \in BOOLEAN :
             LET i == Len(trace) + 1
                 image == ImageAt(registry_images, i)
                 service_name == image
                 current_digest == get_image_digest(image, outcome)
                 is_new == service_name \notin DOMAIN deployments_state
                 stored_digest == IF is_new THEN None ELSE deployments_state[service_name]
                 action == IF is_new THEN "deploy"
                           ELSE IF /\ current_digest # None
                                   /\ stored_digest # None
                                   /\ current_digest # stored_digest
                                THEN "restart" ELSE "none"
                 h1 == CASE action = "deploy" ->
                               deploy_service(deployment_history, service_name, r1)
                         [] action = "restart" ->
                               restart_deployment(deployment_history, service_name, r1)
                         [] OTHER -> deployment_history
                 c1 == IF action = "none" THEN calls
                       ELSE Append(calls, Call(action, service_name, r1))
                 checked == action # "none" /\ r1.ok
                 rolled == action # "none" /\ RollsBack(r1.ok, healthy)
             IN  /\ action = "none" => r1 = KubectlOk
                 /\ action = "restart" => r1 \in RolloutResults(service_name, cluster)
                 /\ ~checked => healthy
                 /\ Len(c1) + (IF rolled THEN 1 ELSE 0) <= limit
                 /\ deployment_history' = h1
                 /\ calls' = c1
                 /\ origin' = Tagged(deployment_history, h1, "loop")
                 /\ cluster' = IF action = "deploy" /\ r1.ok
                               THEN cluster \cup {service_name} ELSE cluster
                 /\ deployments_state' =
                       IF is_new THEN deployments_state
                       ELSE [deployments_state EXCEPT ![service_name] = current_digest]
                 /\ trace' = Append(trace,
                       [service |-> service_name,
                        change |-> Compare(last_seen[service_name], current_digest),
                        present |-> ~is_new, action |-> action,
                        enabled |-> auto_deploy_enabled,
                        success |-> IF action = "none" THEN "na" ELSE Flag(r1.ok),
                        healthy |-> IF checked THEN Flag(healthy) ELSE "na",
                        rollback |-> IF rolled THEN "pending" ELSE "na"])
                 /\ last_seen' = [last_seen EXCEPT ![service_name] = current_digest]
                 /\ unhealthy' = IF rolled THEN unhealthy \cup {service_name} ELSE unhealthy
                 /\ pc' = IF rolled THEN "await_rollback"
                          ELSE IF i = Len(registry_images) THEN "sleep" ELSE "await_digest"
       /\ UNCHANGED << auto_deploy_enabled, last_check_time, registry, latest,
                       registry_images, gate, listed, queried, response, manifest, epoch,
                       health, reply >>
    \/ /\ pc = "await_rollback"
       /\ LET service_name == trace[Len(trace)].service
          IN  \E r2 \in RolloutResults(service_name, cluster) :
                 /\ deployment_history' =
                       rollback_deployment(deployment_history, service_name, r2)
                 /\ calls' = Append(calls, Call("rollback", service_name, r2))
                 /\ origin' = Tagged(deployment_history, deployment_history', "loop")
                 /\ trace' = [trace EXCEPT ![Len(trace)].rollback = Flag(r2.ok)]
       /\ pc' = IF Len(trace) = Len(registry_images) THEN "sleep" ELSE "await_digest"
       /\ UNCHANGED << auto_deploy_enabled, deployments_state, last_check_time, registry,
                       latest, cluster, registry_images, gate, listed, queried, last_seen,
                       unhealthy, response, manifest, epoch, health, reply >>

\* lines 298-329: the digest request of the next image returns and the rest of the
\* iteration runs without suspension: deploy or restart, health check, rollback,
\* digest update.  current_deployments and deployments_state are the same dict.
\* `limit` is the number of executor calls explored.
Iteration(limit) ==
    /\ pc = "await_digest"
    /\ \E outcome \in HttpOutcomes, r1 \in KubectlResults,
          healthy \in BOOLEAN, r2 \in KubectlResults :
          LET i == Len(trace) + 1
              image == ImageAt(registry_images, i)
              service_name == image
              current_digest == get_image_digest(image, outcome)
              is_new == IsNewService(service_name, deployments_state)
              stored_digest == StoredDigest(deployments_state, service_name)
              action == IF is_new THEN "deploy"
                        ELSE IF DigestChanged(current_digest, stored_digest)
                             THEN "restart" ELSE "none"
              h1 == CASE action = "deploy" ->
                            deploy_service(deployment_history, service_name, r1)
                      [] action = "restart" ->
                            restart_deployment(deployment_history, service_name, r1)
                      [] OTHER -> deployment_history
              c1 == IF action = "none" THEN calls
                    ELSE Append(calls, Call(action, service_name, r1))
              clu1 == IF action = "deploy" /\ r1.ok
                      THEN cluster \cup {service_name} ELSE cluster
              checked == action # "none" /\ r1.ok
              rolled == action # "none" /\ RollsBack(r1.ok, healthy)
              h2 == IF rolled THEN rollback_deployment(h1, service_name, r2) ELSE h1
              c2 == IF rolled THEN Append(c1, Call("rollback", service_name, r2))
                    ELSE c1
          IN  /\ action = "none" => r1 = KubectlOk
              /\ action = "restart" => r1 \in RolloutResults(service_name, cluster)
              /\ ~checked => healthy
              /\ IF rolled THEN r2 \in RolloutResults(service_name, clu1)
                           ELSE r2 = KubectlOk
              /\ Len(c2) <= limit
              /\ deployment_history' = h2
              /\ calls' = c2
              /\ origin' = Tagged(deployment_history, h2, "loop")
              /\ cluster' = clu1
              /\ deployments_state' =
                    IF is_new THEN deployments_state
                    ELSE UpdateStoredDigest(deployments_state, service_name, current_digest)
              /\ trace' = Append(trace,
                    [service |-> service_name,
                     change |-> Compare(last_seen[service_name], current_digest),
                     present |-> ~is_new, action |-> action,
                     enabled |-> auto_deploy_enabled,
                     success |-> IF action = "none" THEN "na" ELSE Flag(r1.ok),
                     healthy |-> IF checked THEN Flag(healthy) ELSE "na",
                     rollback |-> IF rolled THEN Flag(r2.ok) ELSE "na"])
              /\ last_seen' = [last_seen EXCEPT ![service_name] = current_digest]
              /\ unhealthy' = IF rolled THEN unhealthy \cup {service_name} ELSE unhealthy
              /\ pc' = IF i = Len(registry_images) THEN "sleep" ELSE "await_digest"
    /\ UNCHANGED << auto_deploy_enabled, last_check_time, registry, latest,
                    registry_images, gate, listed, queried, response, manifest, epoch,
                    health, reply >>

LoopIteration == Iteration(MaxHistory)

\* ---------------------------------------------------------- HTTP handlers
\* lines 612-619 and 627-634: HTTPException(status_code=500, detail=message) when
\* the executor returned failure, otherwise the success body
HandlerReply(success, message, done, service_name) ==
    IF success
    THEN [status |-> 200, success |-> TRUE, message |-> done \o " " \o service_name,
          service |-> service_name]
    ELSE [status |-> 500, detail |-> message]

\* POST /api/deploy refusing to act while auto-deploy is disabled
deploy_image_gated(image) ==
    /\ auto_deploy_enabled
    /\ Len(calls) < MaxHistory
    /\ \E r \in KubectlResults :
          LET service_name == ServiceNameOf(image)
          IN  /\ deployment_history' = deploy_service(deployment_history, service_name, r)
              /\ calls' = Append(calls, Call("deploy", service_name, r))
              /\ origin' = Tagged(deployment_history, deployment_history', "other")
              /\ cluster' = IF r.ok THEN cluster \cup {service_name} ELSE cluster
    /\ UNCHANGED << auto_deploy_enabled, deployments_state, last_check_time, registry,
                    latest, pc, registry_images, trace, gate, listed, queried, last_seen,
                    unhealthy, response, manifest, epoch, health, reply >>

\* POST /api/deploy validating like the loop does: health check after a successful
\* deploy, rollback when it answers false
deploy_image_validating(image) ==
    /\ Len(calls) + 2 <= MaxHistory
    /\ \E r \in KubectlResults, healthy \in BOOLEAN, r2 \in KubectlResults :
          LET service_name == ServiceNameOf(image)
              h1 == deploy_service(deployment_history, service_name, r)
              c1 == Append(calls, Call("deploy", service_name, r))
              rolled == r.ok /\ ~healthy
          IN  /\ ~r.ok => healthy
              /\ ~rolled => r2 = KubectlOk
              /\ deployment_history' =
                    IF rolled THEN rollback_deployment(h1, service_name, r2) ELSE h1
              /\ calls' = IF rolled THEN Append(c1, Call("rollback", service_name, r2))
                          ELSE c1
              /\ origin' = Tagged(deployment_history, deployment_history', "other")
              /\ cluster' = IF r.ok THEN cluster \cup {service_name} ELSE cluster
    /\ UNCHANGED << auto_deploy_enabled, deployments_state, last_check_time, registry,
                    latest, pc, registry_images, trace, gate, listed, queried, last_seen,
                    unhealthy, response, manifest, epoch, health, reply >>

\* POST /api/deploy made to wait until the loop is between two passes
deploy_image_locked(image) ==
    /\ pc = "sleep"
    /\ Len(calls) < MaxHistory
    /\ \E r \in KubectlResults :
          LET service_name == ServiceNameOf(image)
          IN  /\ deployment_history' = deploy_service(deployment_history, service_name, r)
              /\ calls' = Append(calls, Call("deploy", service_name, r))
              /\ origin' = Tagged(deployment_history, deployment_history', "other")
              /\ cluster' = IF r.ok THEN cluster \cup {service_name} ELSE cluster
    /\ UNCHANGED << auto_deploy_enabled, deployments_state, last_check_time, registry,
                    latest, pc, registry_images, trace, gate, listed, queried, last_seen,
                    unhealthy, response, manifest, epoch, health, reply >>

\* lines 600-619: POST /api/deploy; the handler takes no lock.  `observed` tells
\* whether the client's copy of the answer is kept in `reply`.
deploy_image_handler(image, observed) ==
    /\ Len(calls) < MaxHistory
    /\ \E r \in KubectlResults :
          LET service_name == ServiceNameOf(image)
          IN  /\ deployment_history' = deploy_service(deployment_history, service_name, r)
              /\ calls' = Append(calls, Call("deploy", service_name, r))
              /\ origin' = Tagged(deployment_history, deployment_history', "other")
              /\ cluster' = IF r.ok THEN cluster \cup {service_name} ELSE cluster
              /\ reply' = IF observed
                          THEN HandlerReply(r.ok, r.out, "Deployed", service_name)
                          ELSE reply
    /\ UNCHANGED << auto_deploy_enabled, deployments_state, last_check_time, registry,
                    latest, pc, registry_images, trace, gate, listed, queried, last_seen,
                    unhealthy, response, manifest, epoch, health >>

deploy_image(image) == deploy_image_handler(image, FALSE)

\* POST /api/rollback/{name} without lines 627-628: the success body whatever the
\* executor returned
rollback_service_handler_unchecked(name, observed) ==
    /\ Len(calls) < MaxHistory
    /\ \E r \in RolloutResults(name, cluster) :
          /\ deployment_history' = rollback_deployment(deployment_history, name, r)
          /\ calls' = Append(calls, Call("rollback", name, r))
          /\ origin' = Tagged(deployment_history, deployment_history', "other")
          /\ reply' = IF observed
                      THEN HandlerReply(TRUE, r.out, "Rolled back", name)
                      ELSE reply
    /\ UNCHANGED << auto_deploy_enabled, deployments_state, last_check_time, registry,
                    latest, cluster, pc, registry_images, trace, gate, listed, queried,
                    last_seen, unhealthy, response, manifest, epoch, health >>

\* lines 622-634: POST /api/rollback/{name}
rollback_service_handler(name, observed) ==
    /\ Len(calls) < MaxHistory
    /\ \E r \in RolloutResults(name, cluster) :
          /\ deployment_history' = rollback_deployment(deployment_history, name, r)
          /\ calls' = Append(calls, Call("rollback", name, r))
          /\ origin' = Tagged(deployment_history, deployment_history', "other")
          /\ reply' = IF observed
                      THEN HandlerReply(r.ok, r.out, "Rolled back", name)
                      ELSE reply
    /\ UNCHANGED << auto_deploy_enabled, deployments_state, last_check_time, registry,
                    latest, cluster, pc, registry_images, trace, gate, listed, queried,
                    last_seen,
                    unhealthy, response, manifest, epoch, health >>

rollback_service(name) == rollback_service_handler(name, FALSE)

\* set_auto_deploy with a loop that looks at the flag again inside the pass and
\* gives the pass up as soon as the flag is false
set_auto_deploy_immediate(enabled) ==
    /\ auto_deploy_enabled' = enabled
    /\ pc' = IF enabled THEN pc ELSE "sleep"
    /\ UNCHANGED << deployments_state, deployment_history, last_check_time, registry,
                    latest, cluster, registry_images, trace, gate, listed, queried,
                    last_seen, calls, origin, unhealthy, response, manifest, epoch,
                    health, reply >>

\* lines 688-696: POST /api/auto-deploy/{enabled}
set_auto_deploy(enabled) ==
    /\ auto_deploy_enabled' = enabled
    /\ UNCHANGED << deployments_state, deployment_history, last_check_time, registry,
                    latest, cluster, pc, registry_images, trace, gate, listed, queried,
                    last_seen, calls, origin,
                    unhealthy, response, manifest, epoch, health, reply >>

Next ==
    \/ \E s \in Services, d \in Digests : PushImage(s, d)
    \/ PassStart
    \/ RegistryReply
    \/ LoopIteration
    \/ \E image \in Images : deploy_image(image)
    \/ \E name \in Services : rollback_service(name)
    \/ \E enabled \in BOOLEAN : set_auto_deploy(enabled)

Spec == Init /\ [][Next]_vars

\* ---------------------------------------------- the executor on its own
\* restart_deployment (lines 251-267) called directly, as deploy_service and
\* rollback_deployment are by their handlers: the contract of the three executor
\* functions is stated for every call, whoever makes it.
restart_call(name) ==
    /\ Len(calls) < MaxHistory
    /\ \E r \in RolloutResults(name, cluster) :
          /\ deployment_history' = restart_deployment(deployment_history, name, r)
          /\ calls' = Append(calls, Call("restart", name, r))
          /\ origin' = Tagged(deployment_history, deployment_history', "other")
    /\ UNCHANGED << auto_deploy_enabled, deployments_state, last_check_time, registry,
                    latest, cluster, pc, registry_images, trace, gate, listed, queried,
                    last_seen,
                    unhealthy, response, manifest, epoch, health, reply >>

NextExecutor ==
    \/ Next
    \/ \E name \in Services : restart_call(name)

SpecExecutor == Init /\ [][NextExecutor]_vars

\* ------------------------------------- the handlers with their answers
deploy_image_observed(image) == deploy_image_handler(image, TRUE)

rollback_service_observed(name) == rollback_service_handler(name, TRUE)

NextManual ==
    \/ \E s \in Services, d \in Digests : PushImage(s, d)
    \/ PassStart
    \/ RegistryReply
    \/ LoopIteration
    \/ \E image \in Images : deploy_image_observed(image)
    \/ \E name \in Services : rollback_service_observed(name)
    \/ \E enabled \in BOOLEAN : set_auto_deploy(enabled)

SpecManual == Init /\ [][NextManual]_vars

\* ------------------------------- the loop followed one call further
LoopIterationLong == Iteration(MaxLoopHistory)

NextLong ==
    \/ \E s \in Services, d \in Digests : PushImage(s, d)
    \/ PassStart
    \/ RegistryReply
    \/ LoopIterationLong
    \/ \E image \in Images : deploy_image(image)
    \/ \E name \in Services : rollback_service(name)
    \/ \E enabled \in BOOLEAN : set_auto_deploy(enabled)

SpecLong == Init /\ [][NextLong]_vars

\* ------------------------------------------------- a process restart
\* The controller process ends and is started again: lines 30-34 run again and
\* startup_event creates the loop task anew; registry and cluster live on.
process_restart ==
    /\ auto_deploy_enabled' = FALSE
    /\ deployments_state' = [n \in {} |-> None]
    /\ deployment_history' = << >>
    /\ last_check_time' = None
    /\ pc' = "sleep"
    /\ registry_images' = << >>
    /\ trace' = << >>
    /\ gate' = FALSE
    /\ listed' = "pending"
    /\ queried' = "pending"
    /\ last_seen' = [s \in Services |-> Unseen]
    /\ calls' = << >>
    /\ origin' = << >>
    /\ unhealthy' = {}
    /\ epoch' = "restarted"
    /\ response' = NoResponse
    /\ manifest' = NoManifest
    /\ health' = NoHealth
    /\ reply' = NoReply
    /\ UNCHANGED << registry, latest, cluster >>

NextRestart ==
    \/ Next
    \/ process_restart

SpecRestart == Init /\ [][NextRestart]_vars

\* ------------------------------------------------- a pass that raises
\* PassRaises with the exception leaving auto_deploy_loop: the task is over
PassRaises_uncaught ==
    /\ pc = "await_registry"
    /\ \E outcome \in HttpOutcomes :
          /\ registry_images' = get_registry_images(outcome)
          /\ listed' = IF outcome = "200" THEN "ok" ELSE "failed"
    /\ queried' = "raised"
    /\ pc' = "dead"
    /\ UNCHANGED << auto_deploy_enabled, deployments_state, deployment_history,
                    last_check_time, registry, latest, cluster, trace, gate, last_seen,
                    calls, origin, unhealthy, response, manifest, epoch, health, reply >>

\* lines 294 and 331-334: kubectl answers with JSON that is not a deployment list
\* (an item without "metadata" or "spec"), get_current_deployments raises KeyError
\* or TypeError, which only `except Exception` of the loop catches: the pass is
\* given up before line 295 and the loop goes to its sleep.
PassRaises ==
    /\ pc = "await_registry"
    /\ \E outcome \in HttpOutcomes :
          /\ registry_images' = get_registry_images(outcome)
          /\ listed' = IF outcome = "200" THEN "ok" ELSE "failed"
    /\ queried' = "raised"
    /\ pc' = "sleep"
    /\ UNCHANGED << auto_deploy_enabled, deployments_state, deployment_history,
                    last_check_time, registry, latest, cluster, trace, gate, last_seen,
                    calls, origin, unhealthy, response, manifest, epoch, health, reply >>

NextFaulty ==
    \/ Next
    \/ PassRaises

\* The loop under the scheduling the code relies on: the sleep of line 334 ends,
\* the registry requests end (httpx timeout, lines 129 and 159) and every kubectl
\* call ends (timeout=60, line 115), so each suspended step is eventually taken.
SpecLive ==
    /\ Init
    /\ [][NextFaulty]_vars
    /\ WF_vars(PassStart)
    /\ WF_vars(RegistryReply \/ PassRaises)
    /\ WF_vars(LoopIteration)

\* ----------------------------------------------------- GET /api/history
\* get_history without reversed()
get_history_oldest_first(history) ==
    LET n == Len(history)
        last == SubSeq(history, IF n > HistoryLimit THEN n - HistoryLimit + 1 ELSE 1, n)
    IN  [history |-> last, total |-> n]

\* lines 679-685: list(reversed(deployment_history[-50:])) and the length of the log
get_history(history) ==
    LET n == Len(history)
        last == SubSeq(history, IF n > HistoryLimit THEN n - HistoryLimit + 1 ELSE 1, n)
    IN  [history |-> [i \in 1..Len(last) |-> last[Len(last) + 1 - i]], total |-> n]

\* The handler answers; it changes nothing.
history_request ==
    /\ response' = get_history(deployment_history)
    /\ UNCHANGED << auto_deploy_enabled, deployments_state, deployment_history,
                    last_check_time, registry, latest, cluster, pc, registry_images,
                    trace, gate, listed, queried, last_seen, calls, origin, unhealthy,
                    manifest, epoch, health, reply >>

\* The log after n manual deploys of one service, the f-th of which failed (f = 0:
\* none failed).
LogOf(n, f) ==
    [k \in 1..n |->
        IF k = f THEN ActionRecord("deploy", "alpha", FALSE, "error text")
                 ELSE ActionRecord("deploy", "alpha", TRUE, "stdout")]

\* The controller after n requests to POST /api/deploy and before any pass.
InitHistory ==
    \E n \in 0..MaxLog, f \in 0..MaxLog :
        /\ f <= n
        /\ deployment_history = LogOf(n, f)
        /\ calls = [k \in 1..n |->
                       [fn |-> "deploy", service |-> "alpha", ok |-> k # f,
                        out |-> IF k = f THEN "error text" ELSE "stdout"]]
        /\ origin = [k \in 1..n |-> "other"]
        /\ cluster = IF n = 0 \/ (n = 1 /\ f = 1) THEN {} ELSE {"alpha"}
        /\ auto_deploy_enabled = FALSE
        /\ deployments_state = [s \in {} |-> None]
        /\ last_check_time = None
        /\ registry = << >>
        /\ latest = [s \in {} |-> None]
        /\ pc = "sleep"
        /\ registry_images = << >>
        /\ trace = << >>
        /\ gate = FALSE
        /\ listed = "pending"
        /\ queried = "pending"
        /\ last_seen = [s \in Services |-> Unseen]
        /\ unhealthy = {}
        /\ epoch = "boot"
        /\ response = NoResponse
        /\ manifest = NoManifest
    /\ health = NoHealth
    /\ reply = NoReply

NextHistory == history_request

\* The controller with its history endpoint: passes, manual requests, toggles, reads.
NextLedger ==
    \/ Next
    \/ history_request

SpecLedger == Init /\ [][NextLedger]_vars

SpecHistory == InitHistory /\ [][NextHistory]_vars

\* ------------------------------------------------------- the manifest
\* Python values: str, int, dict and list, and the bool and None a YAML parser can
\* make of a scalar.
PyStr(s)  == [type |-> "str", val |-> s]
PyInt(n)  == [type |-> "int", val |-> n]
PyDict(f) == [type |-> "map", val |-> f]
PyList(q) == [type |-> "seq", val |-> q]

\* Service names deploy_service is called with; some read as another YAML type
\* when written plain.
ManifestNames == Services \cup {"orders", "8080", "3", "true", "null"}
Replicas == 0..MaxReplicas

\* lines 53-102: the dict generate_deployment_yaml builds
Deployment(service_name, replicas) ==
    PyDict([k \in {"apiVersion", "kind", "metadata", "spec"} |->
      CASE k = "apiVersion" -> PyStr("apps/v1")
        [] k = "kind" -> PyStr("Deployment")
        [] k = "metadata" ->
             PyDict([m \in {"name", "namespace", "labels"} |->
               CASE m = "name" -> PyStr(service_name)
                 [] m = "namespace" -> PyStr(NAMESPACE)
                 [] m = "labels" ->
                      PyDict([l \in {"app", "managed-by"} |->
                        IF l = "app" THEN PyStr(service_name)
                                     ELSE PyStr("deploy-controller")])])
        [] k = "spec" ->
             PyDict([m \in {"replicas", "selector", "template"} |->
               CASE m = "replicas" -> PyInt(replicas)
                 [] m = "selector" ->
                      PyDict([l \in {"matchLabels"} |->
                        PyDict([a \in {"app"} |-> PyStr(service_name)])])
                 [] m = "template" ->
                      PyDict([t \in {"metadata", "spec"} |->
                        IF t = "metadata"
                        THEN PyDict([l \in {"labels"} |->
                               PyDict([a \in {"app"} |-> PyStr(service_name)])])
                        ELSE PyDict([p \in {"affinity", "containers"} |->
                          IF p = "affinity"
                          THEN PyDict([a \in {"nodeAffinity"} |->
                            PyDict([q \in {"requiredDuringSchedulingIgnoredDuringExecution"} |->
                              PyDict([n \in {"nodeSelectorTerms"} |->
                                PyList(<< PyDict([e \in {"matchExpressions"} |->
                                  PyList(<< PyDict([x \in {"key", "operator", "values"} |->
                                    CASE x = "key" -> PyStr("kubernetes.io/hostname")
                                      [] x = "operator" -> PyStr("NotIn")
                                      [] x = "values" ->
                                           PyList(<< PyStr("openmediavault") >>)]) >>)]) >>)])])])
                          ELSE PyList(<< PyDict([c \in {"name", "image", "ports",
                                                     "imagePullPolicy"} |->
                                 CASE c = "name" -> PyStr(service_name)
                                   [] c = "image" ->
                                        PyStr("localhost:31500/" \o service_name \o ":latest")
                                   [] c = "ports" ->
                                        PyList(<< PyDict([o \in {"containerPort"} |->
                                                       PyInt(ContainerPort)]) >>)
                                   [] c = "imagePullPolicy" -> PyStr("Always")]) >>)])])])])

\* The keys of the manifest in the order sorted() gives them (yaml.dump sorts the
\* keys of a mapping, sort_keys=True).
KeyOrder ==
    << "affinity", "apiVersion", "app", "containerPort", "containers", "image",
       "imagePullPolicy", "key", "kind", "labels", "managed-by", "matchExpressions",
       "matchLabels", "metadata", "name", "namespace", "nodeAffinity",
       "nodeSelectorTerms", "operator", "ports", "replicas",
       "requiredDuringSchedulingIgnoredDuringExecution", "selector", "spec",
       "template", "values" >>

SortedKeys(f) == SelectSeq(KeyOrder, LAMBDA k : k \in DOMAIN f)

\* The integers whose decimal form the resolver has to recognise here.
IntTexts == Replicas \cup {ContainerPort}

\* The YAML 1.1 resolver on a plain scalar: int, bool, null, otherwise str.
ResolvePlain(text) ==
    IF \E n \in IntTexts : ToString(n) = text
    THEN PyInt(CHOOSE n \in IntTexts : ToString(n) = text)
    ELSE IF text \in {"true", "false", "yes", "no", "on", "off"}
         THEN [type |-> "bool", val |-> text]
         ELSE IF text \in {"null", "~", ""}
              THEN [type |-> "null", val |-> text]
              ELSE PyStr(text)

NoScalar == [style |-> "none", text |-> ""]

\* the representer writing every str plain
Represent_plain(v) ==
    IF v.type = "int"
    THEN [style |-> "plain", text |-> ToString(v.val)]
    ELSE [style |-> "plain", text |-> v.val]

\* yaml.dump's representer: an int in decimal; a str plain, or in single quotes
\* when the plain form would be read as something else.
Represent(v) ==
    IF v.type = "int"
    THEN [style |-> "plain", text |-> ToString(v.val)]
    ELSE IF ResolvePlain(v.val).type = "str"
         THEN [style |-> "plain", text |-> v.val]
         ELSE [style |-> "quoted", text |-> v.val]

\* One line of block-style YAML: `indent` columns, "- " when `dash`, "key:" unless
\* key is "", then the scalar if there is one.
Line(indent, dash, key, scalar) ==
    [indent |-> indent, dash |-> dash, key |-> key, scalar |-> scalar]

IsScalar(v) == v.type \in {"str", "int"}

RECURSIVE DumpNode(_, _)
RECURSIVE DumpKeys(_, _, _)
RECURSIVE DumpItems(_, _)

\* The mapping f, key after key of `keys`: a scalar on the key's line, a mapping
\* two columns deeper, a sequence at the column of its key.
DumpKeys(f, keys, indent) ==
    IF keys = << >> THEN << >>
    ELSE LET k == Head(keys)
             v == f[k]
             here == IF IsScalar(v)
                     THEN << Line(indent, FALSE, k, Represent(v)) >>
                     ELSE << Line(indent, FALSE, k, NoScalar) >>
                          \o DumpNode(v, IF v.type = "map" THEN indent + 2 ELSE indent)
         IN  here \o DumpKeys(f, Tail(keys), indent)

\* The items of a sequence: "- scalar", or "- " and the item's mapping, whose first
\* key shares the line of the dash.
DumpItems(items, indent) ==
    IF items = << >> THEN << >>
    ELSE LET v == Head(items)
             here == IF IsScalar(v)
                     THEN << Line(indent, TRUE, "", Represent(v)) >>
                     ELSE LET body == DumpNode(v, indent + 2)
                          IN  << Line(indent, TRUE, body[1].key, body[1].scalar) >>
                              \o Tail(body)
         IN  here \o DumpItems(Tail(items), indent)

DumpNode(v, indent) ==
    IF v.type = "map" THEN DumpKeys(v.val, SortedKeys(v.val), indent)
                      ELSE DumpItems(v.val, indent)

\* line 103: yaml.dump(deployment, default_flow_style=False)
yaml_dump(v) == DumpNode(v, 0)

\* lines 51-103
generate_deployment_yaml(service_name, replicas) ==
    yaml_dump(Deployment(service_name, replicas))

\* A scalar as the parser reads it: a quoted one is a str, a plain one is resolved.
Resolve(scalar) ==
    IF scalar.style = "quoted" THEN PyStr(scalar.text) ELSE ResolvePlain(scalar.text)

Put(f, k, v) == [x \in DOMAIN f \cup {k} |-> IF x = k THEN v ELSE f[x]]

RECURSIVE ParseNode(_, _, _)
RECURSIVE ParseMap(_, _, _, _)
RECURSIVE ParseSeq(_, _, _, _)

\* The mapping whose keys stand at column `indent`, from line i on.
ParseMap(L, i, indent, acc) ==
    IF i > Len(L) \/ L[i].indent # indent \/ L[i].dash
    THEN [val |-> PyDict(acc), next |-> i]
    ELSE IF L[i].scalar.style # "none"
         THEN ParseMap(L, i + 1, indent, Put(acc, L[i].key, Resolve(L[i].scalar)))
         ELSE IF i + 1 <= Len(L)
                 /\ \/ L[i + 1].indent > indent
                    \/ (L[i + 1].indent = indent /\ L[i + 1].dash)
              THEN LET child == ParseNode(L, i + 1, L[i + 1].indent)
                   IN  ParseMap(L, child.next, indent, Put(acc, L[i].key, child.val))
              ELSE ParseMap(L, i + 1, indent,
                            Put(acc, L[i].key, [type |-> "null", val |-> ""]))

\* The sequence whose dashes stand at column `indent`, from line i on.
ParseSeq(L, i, indent, acc) ==
    IF i > Len(L) \/ L[i].indent # indent \/ ~L[i].dash
    THEN [val |-> PyList(acc), next |-> i]
    ELSE IF L[i].key = ""
         THEN ParseSeq(L, i + 1, indent, Append(acc, Resolve(L[i].scalar)))
         ELSE LET undashed == [L EXCEPT ![i] = Line(indent + 2, FALSE, @.key, @.scalar)]
                  item == ParseMap(undashed, i, indent + 2, << >>)
              IN  ParseSeq(L, item.next, indent, Append(acc, item.val))

ParseNode(L, i, indent) ==
    IF L[i].dash THEN ParseSeq(L, i, indent, << >>)
                 ELSE ParseMap(L, i, indent, << >>)

\* The document parsed back (yaml.safe_load; what `kubectl apply -f -` reads).
yaml_load(L) == ParseNode(L, 1, 0).val

\* lines 204-210: deploy_service renders the manifest and hands it to kubectl.
render_manifest(service_name, replicas) ==
    /\ manifest' = [stage |-> "rendered", service_name |-> service_name,
                    replicas |-> replicas,
                    yaml |-> generate_deployment_yaml(service_name, replicas),
                    parsed |-> PyStr("")]
    /\ UNCHANGED << auto_deploy_enabled, deployments_state, deployment_history,
                    last_check_time, registry, latest, cluster, pc, registry_images,
                    trace, gate, listed, queried, last_seen, calls, origin, unhealthy,
                    epoch, response, health, reply >>

\* The rendered text is parsed.
load_manifest ==
    /\ manifest.stage = "rendered"
    /\ manifest' = [manifest EXCEPT !.stage = "loaded", !.parsed = yaml_load(manifest.yaml)]
    /\ UNCHANGED << auto_deploy_enabled, deployments_state, deployment_history,
                    last_check_time, registry, latest, cluster, pc, registry_images,
                    trace, gate, listed, queried, last_seen, calls, origin, unhealthy,
                    epoch, response, health, reply >>

NextManifest ==
    \/ \E service_name \in ManifestNames, replicas \in Replicas :
          render_manifest(service_name, replicas)
    \/ load_manifest

SpecManifest == Init /\ [][NextManifest]_vars

\* ------------------------------------------------- check_deployment_health
\* What the rollout of a deployment does after `kubectl rollout status` was started:
\* it converges `at` seconds later, never does, or the query fails after `at` seconds
\* (no such deployment, no API server).
Rollouts ==
    { [kind |-> "converges", at |-> t] : t \in 0..MaxSeconds }
    \cup { [kind |-> "fails", at |-> t] : t \in 0..MaxSeconds }
    \cup { [kind |-> "never", at |-> 0] }

\* lines 272-275: `kubectl rollout status --timeout {timeout}s` ends with status 0
\* when the rollout converges before the timeout, and with an error at the timeout
\* or when the query fails.  Two events of the same second can fall either way.
RolloutStatus(rollout, timeout) ==
    CASE rollout.kind = "never" -> { [ok |-> FALSE, at |-> timeout] }
      [] rollout.kind = "fails" ->
            { [ok |-> FALSE, at |-> IF rollout.at < timeout THEN rollout.at ELSE timeout] }
      [] rollout.kind = "converges" ->
            (IF rollout.at <= timeout THEN { [ok |-> TRUE, at |-> rollout.at] } ELSE {})
            \cup (IF rollout.at >= timeout THEN { [ok |-> FALSE, at |-> timeout] } ELSE {})

\* lines 110-121: subprocess.run gives the command 60 seconds; a command that is
\* still running then is killed and run_kubectl returns False, "Command timed out".
RunKubectlWithin(exit) ==
    (IF exit.at <= SubprocessTimeout THEN { exit.ok } ELSE {})
    \cup (IF exit.at >= SubprocessTimeout THEN { FALSE } ELSE {})

\* lines 270-276: the answers check_deployment_health can give
check_deployment_health(rollout, timeout) ==
    UNION { RunKubectlWithin(exit) : exit \in RolloutStatus(rollout, timeout) }

\* lines 309 and 321: the loop waits for the health of the service it acted on, with
\* the default timeout.
health_call(rollout) ==
    /\ \E answer \in check_deployment_health(rollout, HealthTimeout) :
          health' = [stage |-> "answered", rollout |-> rollout,
                     timeout |-> HealthTimeout, result |-> answer]
    /\ UNCHANGED << auto_deploy_enabled, deployments_state, deployment_history,
                    last_check_time, registry, latest, cluster, pc, registry_images,
                    trace, gate, listed, queried, last_seen, calls, origin, unhealthy,
                    epoch, response, manifest, reply >>

NextHealth == \E rollout \in Rollouts : health_call(rollout)

SpecHealth == Init /\ [][NextHealth]_vars

\* ================================================================= claims
\* Records of deployment_history the loop appended in the current pass, by action
\* and service.
LoopRecs(a, s) ==
    { k \in DOMAIN deployment_history :
        /\ origin[k] = "loop"
        /\ deployment_history[k].action = a
        /\ deployment_history[k].service = s }

\* The cluster deployment map read in the current pass (line 294).
ClusterMap == DOMAIN deployments_state

PassOver == pc = "sleep" /\ gate

\* The records the loop appended in the current pass, as <<action, service>>, in
\* the order of deployment_history.
LoopLog(history, by) ==
    LET marked == [k \in DOMAIN history |->
                      [action |-> history[k].action, service |-> history[k].service,
                       by |-> by[k]]]
        mine == SelectSeq(marked, LAMBDA m : m.by = "loop")
    IN  [k \in DOMAIN mine |-> << mine[k].action, mine[k].service >>]

\* The records one iteration of the for loop leaves: that of its deploy or restart
\* (a failed restart leaves none, lines 257-267), then that of its rollback.
IterationLog(e) ==
    (IF e.action = "deploy" \/ (e.action = "restart" /\ e.success = "true")
     THEN << << e.action, e.service >> >> ELSE << >>)
    \o (IF e.rollback # "na" THEN << << "rollback", e.service >> >> ELSE << >>)

\* The records the iterations of `tr` leave, iteration after iteration.
RECURSIVE PassLog(_)
PassLog(tr) ==
    IF tr = << >> THEN << >>
    ELSE PassLog(SubSeq(tr, 1, Len(tr) - 1)) \o IterationLog(tr[Len(tr)])

\* Where repository s stands in the list `images`.
IndexIn(images, s) == CHOOSE i \in DOMAIN images : images[i] = s

\* C1: in an enabled pass every registry repository absent from the cluster map read
\* in that pass gets exactly one deploy record from the loop once it is examined, a
\* repository present in the map gets none, and a pass ends only when every
\* repository of the list has been examined.
C1_OneDeployPerMissing ==
    /\ \A s \in Services :
          Cardinality(LoopRecs("deploy", s)) =
             IF s \in HandledIn(trace) /\ s \notin ClusterMap THEN 1 ELSE 0
    /\ PassOver => HandledIn(trace) = Range(registry_images)

\* C1 witness: the pass over registry <<alpha, beta>> with only alpha in the cluster
\* ended with one deploy for beta and no record for alpha.
C1_Witness ==
    /\ PassOver
    /\ registry_images = << "alpha", "beta" >>
    /\ "alpha" \in ClusterMap
    /\ "beta" \notin ClusterMap
    /\ Cardinality(LoopRecs("deploy", "beta")) = 1
    /\ \A k \in DOMAIN deployment_history :
          origin[k] = "loop" => deployment_history[k].service = "beta"

\* C2: a service present in the cluster map whose registry digest differs from the
\* digest the previous enabled pass observed gets exactly one restart record from
\* the pass that observes the change.
C2_RestartOnDigestChange ==
    \A i \in DOMAIN trace :
        (trace[i].present /\ trace[i].change = "differs")
            => Cardinality(LoopRecs("restart", trace[i].service)) = 1

\* C3: a deploy or restart of the loop whose health check returned false is followed,
\* in the same pass, by exactly one rollback record for that service, and the record
\* carries the outcome of the rollback, successful or not.
C3_OneRollbackPerUnhealthy ==
    \A i \in DOMAIN trace :
        trace[i].healthy = "false"
            => /\ Cardinality(LoopRecs("rollback", trace[i].service)) = 1
               /\ \A k \in LoopRecs("rollback", trace[i].service) :
                     Flag(deployment_history[k].success) = trace[i].rollback

\* C3 witness: a health check failed and the rollback that followed failed too.
C3_Witness ==
    \E i \in DOMAIN trace :
        /\ trace[i].healthy = "false"
        /\ trace[i].rollback = "false"
        /\ Cardinality(LoopRecs("rollback", trace[i].service)) = 1

\* C4: a pass that read auto_deploy_enabled = false examines no repository and the
\* loop appends no deploy, restart or rollback record in it.
C4_GateClosed ==
    ~gate => /\ pc = "sleep"
             /\ trace = << >>
             /\ \A k \in DOMAIN origin : origin[k] # "loop"

\* C4 witness: a disabled pass began while a repository that an earlier enabled pass
\* had listed was still missing from the cluster.
C4_Witness ==
    /\ ~gate
    /\ last_check_time = "set"
    /\ \E s \in Range(registry_images) : s \notin cluster

\* C5: a service present in the cluster map whose registry digest is the one the
\* previous enabled pass observed gets no restart record from the pass.
C5_NoRestartWhenUnchanged ==
    \A i \in DOMAIN trace :
        (trace[i].present /\ trace[i].change = "same")
            => LoopRecs("restart", trace[i].service) = {}

\* C5 witness: a pass ended in which a present service showed the digest of the
\* previous enabled pass.
C5_Witness ==
    /\ PassOver
    /\ \E i \in DOMAIN trace : trace[i].present /\ trace[i].change = "same"

\* C6 as claimed: at the end of an enabled pass every repository examined in it,
\* newly deployed or already present, has the digest observed in the pass stored.
C6_DigestStoredForAll ==
    PassOver =>
        \A s \in HandledIn(trace) :
            s \in DOMAIN deployments_state /\ deployments_state[s] = last_seen[s]

\* C6 amended: at the end of an enabled pass every repository examined in it that
\* was present in the cluster map has the digest observed in the pass stored (None
\* when the lookup failed); a repository the pass deployed as new has no entry.
C6_DigestStoredForPresent ==
    PassOver =>
        \A i \in DOMAIN trace :
            IF trace[i].present
            THEN /\ trace[i].service \in DOMAIN deployments_state
                 /\ deployments_state[trace[i].service] = last_seen[trace[i].service]
            ELSE trace[i].service \notin DOMAIN deployments_state

\* C6 witness: a pass ended that stored a digest for a present service and deployed
\* another one as new.
C6_Witness ==
    /\ PassOver
    /\ \E i, j \in DOMAIN trace :
          /\ trace[i].present
          /\ deployments_state[trace[i].service] \in Digests
          /\ ~trace[j].present
          /\ trace[j].action = "deploy"

\* C7: every call of deploy_service, restart_deployment or rollback_deployment
\* appends exactly one ActionRecord, which carries the call's outcome: success and,
\* on failure, the error text.
C7_OneRecordPerCall ==
    /\ Len(deployment_history) = Len(calls)
    /\ \A k \in DOMAIN deployment_history :
          deployment_history[k] =
             ActionRecord(calls[k].fn, calls[k].service, calls[k].ok, calls[k].out)

\* C8: nothing holds a manual deploy or rollback back while a pass is suspended
\* between reading its cluster snapshot and handling a service.
C8_NoMutualExclusion ==
    (pc = "await_digest" /\ Len(calls) < MaxHistory)
        => \A s \in Services :
              /\ ENABLED deploy_image(<< s >>)
              /\ ENABLED rollback_service(s)

\* C8 witness: the snapshot was read without the service, a manual deploy of it then
\* succeeded, and the pass still deployed it as new: two deploy records.
C8_Witness ==
    /\ queried = "ok"
    /\ \E i \in DOMAIN trace, k, k2 \in DOMAIN deployment_history :
          /\ trace[i].action = "deploy"
          /\ k < k2
          /\ origin[k] = "other"
          /\ deployment_history[k] =
                ActionRecord("deploy", trace[i].service, TRUE, "stdout")
          /\ k2 \in LoopRecs("deploy", trace[i].service)

\* C9: a deploy or restart of the loop that fails leaves one failed record, is
\* followed by neither health check nor rollback, and the pass goes on: it ends only
\* after the last repository of the list.
C9_FailureRecordedPassContinues ==
    /\ \A i \in DOMAIN trace :
          trace[i].success = "false"
             => /\ LoopRecs("rollback", trace[i].service) = {}
                /\ Cardinality(LoopRecs(trace[i].action, trace[i].service)) = 1
                /\ \A k \in LoopRecs(trace[i].action, trace[i].service) :
                      /\ deployment_history[k].success = FALSE
                      /\ deployment_history[k].message = "error text"
    /\ pc = "await_digest" => Len(trace) < Len(registry_images)
    /\ PassOver => Len(trace) = Len(registry_images)

\* C9 witness: a deploy failed and the pass examined the next repository.
C9_Witness ==
    \E i \in DOMAIN trace : trace[i].success = "false" /\ i < Len(trace)

\* C10: when the repository listing fails the pass gets the empty list, examines
\* nothing, appends no record and is over.
C10_OutageChangesNothing ==
    listed = "failed"
        => /\ registry_images = << >>
           /\ trace = << >>
           /\ pc = "sleep"
           /\ \A k \in DOMAIN origin : origin[k] # "loop"

\* C10 witness: the listing failed while the registry held a repository that is
\* missing from the cluster.
C10_Witness ==
    /\ listed = "failed"
    /\ \E s \in Range(registry) : s \notin cluster

\* C11: when the cluster query fails while the catalog request succeeds, the cluster
\* map of the pass is empty and every repository the pass examines gets one deploy
\* attempt from the loop, whether its deployment exists or not; the pass examines
\* the whole list.
C11_QueryFailureDeploysAll ==
    (queried = "failed" /\ listed = "ok") =>
        /\ ClusterMap = {}
        /\ \A i \in DOMAIN trace :
              /\ trace[i].action = "deploy"
              /\ Cardinality(LoopRecs("deploy", trace[i].service)) = 1
        /\ PassOver => HandledIn(trace) = Range(registry_images)

\* C11 witness: a pass whose cluster query failed ended after a deploy attempt for a
\* service that an earlier successful deploy had already put into the cluster.
C11_Witness ==
    /\ PassOver
    /\ queried = "failed"
    /\ listed = "ok"
    /\ \E i \in DOMAIN trace, k, k2 \in DOMAIN deployment_history :
          /\ k < k2
          /\ origin[k] = "other"
          /\ deployment_history[k] =
                ActionRecord("deploy", trace[i].service, TRUE, "stdout")
          /\ trace[i].service \in cluster
          /\ k2 \in LoopRecs("deploy", trace[i].service)

\* C12 as claimed: a pass that reads auto_deploy_enabled = false leaves the cached
\* cluster state equal to the cluster's current deployment map.
C12_DisabledPassRefreshes ==
    [][(PassStart /\ ~auto_deploy_enabled)
          => DOMAIN deployments_state' = cluster']_vars

\* C12 amended: a pass that reads auto_deploy_enabled = false does nothing: the
\* cached cluster state stays what the last enabled pass left, last_check_time is
\* not stamped, no record is appended, the cluster is not touched, and the loop
\* sleeps again.
C12_DisabledPassIdle ==
    [][(PassStart /\ ~auto_deploy_enabled)
          => /\ UNCHANGED << deployments_state, deployment_history, calls, cluster,
                             last_check_time >>
             /\ pc' = "sleep"]_vars

\* C12 witness: a disabled pass has run after an enabled one, and the cache is not
\* the cluster's deployment map.
C12_Witness ==
    /\ ~gate
    /\ pc = "sleep"
    /\ last_check_time = "set"
    /\ DOMAIN deployments_state # cluster

\* C13: the flag counts as read when the pass begins.  A repository examined while
\* the flag is already false again is handled like any other (deployed iff absent
\* from the cluster map), a pass in progress was begun with the flag true and ends
\* only after the last repository of its list; a pass begun with the flag false
\* examines nothing and records nothing, even when the flag is true by now.
C13_ToggleAtPassBoundary ==
    /\ \A i \in DOMAIN trace :
          ~trace[i].enabled => (trace[i].action = "deploy" <=> ~trace[i].present)
    /\ pc # "sleep" => gate
    /\ PassOver => Len(trace) = Len(registry_images)
    /\ (~gate /\ auto_deploy_enabled)
          => /\ pc = "sleep"
             /\ trace = << >>
             /\ \A k \in DOMAIN origin : origin[k] # "loop"

\* C13 witness: the flag was set to false after the pass had examined its first
\* repository; the pass went on and deployed the second one.
C13_Witness ==
    /\ PassOver
    /\ Len(trace) = 2
    /\ trace[1].enabled
    /\ ~trace[2].enabled
    /\ trace[2].action = "deploy"
    /\ Cardinality(LoopRecs("deploy", trace[2].service)) = 1

\* C14: the loop survives a pass that raises: after a pass in which an exception
\* was raised, and after any pass that has ended, the next pass begins.
C14_NextPassBegins ==
    /\ (queried = "raised") ~> (listed = "pending")
    /\ (pc = "sleep" /\ listed # "pending") ~> (listed = "pending")

\* C14 witness: a pass raised after its catalog request had succeeded, and the loop
\* is at its sleep.
C14_Witness ==
    /\ queried = "raised"
    /\ listed = "ok"
    /\ registry_images # << >>
    /\ pc = "sleep"

\* C15: the records of a pass lie in deployment_history service after service, in
\* the order the pass examined them, each service's deploy or restart followed by
\* its rollback before the next service's first record; every examined service has
\* its health verdict; and a pass begins only while the loop sleeps, after the pass
\* before it has examined its whole list.
C15_Sequential ==
    [][/\ LoopLog(deployment_history', origin') = PassLog(trace')
       /\ \A i \in DOMAIN trace' :
             /\ trace'[i].service = registry_images'[i]
             /\ trace'[i].success = "true" => trace'[i].healthy # "na"
             /\ trace'[i].healthy = "false" => trace'[i].rollback # "na"
       /\ (pc # "await_registry" /\ pc' = "await_registry")
             => /\ pc = "sleep"
                /\ gate => Len(trace) = Len(registry_images)]_vars

\* C15 witness: the first service of the pass was deployed and its health check
\* had answered before the second one was deployed.
C15_Witness ==
    /\ Len(trace) = 2
    /\ trace[1].healthy = "true"
    /\ LoopLog(deployment_history, origin) =
          << << "deploy", trace[1].service >>, << "deploy", trace[2].service >> >>

\* C16: POST /api/deploy is served whatever auto_deploy_enabled is, and the request
\* served while the flag is false appends one deploy record for the service named
\* by the image and, when kubectl succeeds, creates the deployment.
C16_ManualDeployBypassesGate ==
    [][\A image \in Images :
          /\ Len(calls) < MaxHistory => ENABLED deploy_image(image)
          /\ (deploy_image(image) /\ ~auto_deploy_enabled)
                => /\ Len(deployment_history') = Len(deployment_history) + 1
                   /\ LET rec == deployment_history'[Len(deployment_history')]
                      IN  /\ rec.action = "deploy"
                          /\ rec.service = ServiceNameOf(image)
                          /\ rec.success => rec.service \in cluster'
                   /\ SubSeq(deployment_history', 1, Len(deployment_history))
                         = deployment_history]_vars

\* C16 witness: no pass has ever been enabled, the flag is false, and the history
\* holds the record of a manual deploy that created the deployment.
C16_Witness ==
    /\ ~auto_deploy_enabled
    /\ ~gate
    /\ last_check_time = None
    /\ \E s \in Services :
          /\ deployment_history = << ActionRecord("deploy", s, TRUE, "stdout") >>
          /\ s \in cluster

\* C17: the answer of GET /api/history to a log of n records holds min(50, n)
\* records, and its i-th record is the i-th newest record of the log.
C17_HistoryNewestFirst ==
    response # NoResponse =>
        LET n == Len(deployment_history)
            m == IF n < HistoryLimit THEN n ELSE HistoryLimit
        IN  /\ Len(response.history) = m
            /\ \A i \in 1..m : response.history[i] = deployment_history[n + 1 - i]

\* C17 witness: a log longer than 50 records whose newest record is the failed one
\* was answered with 50 records, the failed one first.
C17_Witness ==
    /\ Len(deployment_history) > HistoryLimit
    /\ Len(response.history) = HistoryLimit
    /\ ~response.history[1].success
    /\ \A i \in 2..HistoryLimit : response.history[i].success

\* C18 as claimed: a service whose deploy or restart by the loop failed the health
\* check, and whose "latest" tag has not moved since, gets no deploy or restart
\* from any later pass that examines it.
C18_NoRetryAfterUnhealthy ==
    [][\A s \in unhealthy :
          (Len(trace') = Len(trace) + 1 /\ trace'[Len(trace')].service = s)
             => trace'[Len(trace')].action = "none"]_vars

\* C18 amended: such a service gets no deploy or restart from a later pass whose
\* cluster map lists it.
C18_NoRetryWhileListed ==
    [][\A s \in unhealthy :
          (/\ Len(trace') = Len(trace) + 1
           /\ trace'[Len(trace')].service = s
           /\ s \in DOMAIN deployments_state)
             => trace'[Len(trace')].action = "none"]_vars

\* C18 witness: a later pass found the service that had failed its health check in
\* the cluster map, its tag unmoved, and left it alone.
C18_Witness ==
    \E i \in DOMAIN trace :
        /\ trace[i].service \in unhealthy
        /\ trace[i].present
        /\ trace[i].change = "same"
        /\ trace[i].action = "none"

\* C19 as claimed: the first enabled pass after a process restart that gets the
\* registry list leaves one deploy record for every repository of the list.
C19_RestartRedeploysAll ==
    (epoch = "first" /\ pc = "sleep" /\ listed = "ok")
        => \A s \in Range(registry_images) : Cardinality(LoopRecs("deploy", s)) = 1

\* C19 amended: after a process restart no pass acts until auto-deploy is enabled
\* again; the first enabled pass then deploys the examined repositories that are
\* absent from the cluster map it read, once each, leaves those in the map alone,
\* and examines its whole list.
C19_RestartDeploysMissing ==
    /\ epoch = "restarted"
          => /\ last_check_time = None
             /\ trace = << >>
             /\ \A k \in DOMAIN origin : origin[k] # "loop"
    /\ epoch = "first"
          => /\ \A s \in Services :
                   Cardinality(LoopRecs("deploy", s)) =
                      IF s \in HandledIn(trace) /\ s \notin ClusterMap THEN 1 ELSE 0
             /\ \A s \in Services : LoopRecs("restart", s) = {}
             /\ pc = "sleep" => HandledIn(trace) = Range(registry_images)

\* C19 witness: the first enabled pass after a restart has ended; it found a
\* listed service in the cluster map and recorded nothing for it.
C19_Witness ==
    /\ epoch = "first"
    /\ pc = "sleep"
    /\ queried = "ok"
    /\ \E i \in DOMAIN trace :
          /\ trace[i].present
          /\ trace[i].action = "none"
          /\ \A k \in DOMAIN deployment_history :
                deployment_history[k].service # trace[i].service

\* C20: the manifest rendered for service name s and replica count r, parsed back,
\* is a mapping with metadata.name the string s, spec.replicas the integer r,
\* metadata.namespace "holm", one container, and one port in that container.
C20_ManifestRoundTrip ==
    manifest.stage = "loaded" =>
        LET d == manifest.parsed
            name == d.val["metadata"].val["name"]
            namespace == d.val["metadata"].val["namespace"]
            replicas == d.val["spec"].val["replicas"]
            containers == d.val["spec"].val["template"].val["spec"].val["containers"]
            ports == containers.val[1].val["ports"]
        IN  /\ name.type = "str"
            /\ name.val = manifest.service_name
            /\ replicas.type = "int"
            /\ replicas.val = manifest.replicas
            /\ namespace.type = "str"
            /\ namespace.val = NAMESPACE
            /\ containers.type = "seq"
            /\ Len(containers.val) = 1
            /\ ports.type = "seq"
            /\ Len(ports.val) = 1
            /\ DOMAIN ports.val[1].val = {"containerPort"}

\* C20 witness: the manifest of deploy("orders", 3) was rendered and parsed back to
\* the dict it was rendered from.
C20_Witness ==
    /\ manifest.stage = "loaded"
    /\ manifest.service_name = "orders"
    /\ manifest.replicas = 3
    /\ Len(manifest.yaml) > 20
    /\ manifest.parsed = Deployment("orders", 3)

\* C21: the history log is append-only: every step of the controller, whether of a
\* pass, a manual deploy or rollback, a toggle or a read of the history, leaves the
\* log it found as a prefix of the log it leaves.
C21_AppendOnly ==
    [][/\ Len(deployment_history') >= Len(deployment_history)
       /\ SubSeq(deployment_history', 1, Len(deployment_history)) = deployment_history]_vars

\* C21 witness: a manual request appended a record, the history was read, and the
\* loop then appended its deploy record behind the first one.
C21_Witness ==
    /\ Len(deployment_history) = 2
    /\ origin = << "other", "loop" >>
    /\ deployment_history[2].action = "deploy"
    /\ response.total = 1
    /\ response.history = << deployment_history[1] >>

\* C22: check_deployment_health with the 120-second timeout answers true whenever
\* the rollout converges before 120 seconds have passed, and answers false only
\* when it has not converged by then or the status query failed.
C22_HealthyWithinTimeout ==
    health.stage = "answered" =>
        /\ (health.rollout.kind = "converges" /\ health.rollout.at < health.timeout)
              => health.result
        /\ ~health.result
              => \/ health.rollout.kind \in {"never", "fails"}
                 \/ health.rollout.at >= health.timeout

\* C23: when a pass examines a service that is in its cluster map, it restarts it
\* only if the digest it fetched and the digest stored for the service both exist and
\* differ; a failed lookup or a missing stored digest leaves the service without any
\* action.
C23_RestartOnlyOnTwoDigests ==
    [][\A s \in Services :
          (/\ Len(trace') = Len(trace) + 1
           /\ trace'[Len(trace')].service = s
           /\ s \in DOMAIN deployments_state)
             => LET current_digest == last_seen'[s]
                    stored_digest == deployments_state[s]
                    restarted == trace'[Len(trace')].action = "restart"
                IN  /\ restarted => /\ current_digest \in Digests
                                    /\ stored_digest \in Digests
                                    /\ current_digest # stored_digest
                    /\ (current_digest = None \/ stored_digest = None)
                          => /\ trace'[Len(trace')].action = "none"
                             /\ deployment_history' = deployment_history
                             /\ calls' = calls]_vars

\* C23 witness: a pass fetched for a service of its cluster map a digest other
\* than the one the pass before had fetched, found no stored digest, and did not
\* restart it.
C23_Witness ==
    \E i \in DOMAIN trace :
        /\ trace[i].present
        /\ trace[i].change = "differs"
        /\ trace[i].action = "none"
        /\ last_seen[trace[i].service] \in Digests
        /\ LoopRecs("restart", trace[i].service) = {}

\* C24: a pass examines the repositories in the order of the list it fetched, and
\* the records it appends lie in deployment_history in that order: of two records
\* of the pass, the earlier one is of a repository that stands no later in the list.
C24_RegistryOrder ==
    /\ \A i \in DOMAIN trace : trace[i].service = registry_images[i]
    /\ \A k, k2 \in DOMAIN deployment_history :
          (k < k2 /\ origin[k] = "loop" /\ origin[k2] = "loop")
             => /\ deployment_history[k].service \in Range(registry_images)
                /\ deployment_history[k2].service \in Range(registry_images)
                /\ IndexIn(registry_images, deployment_history[k].service)
                      <= IndexIn(registry_images, deployment_history[k2].service)

\* C24 witness: the registry lists beta before alpha, and the pass has recorded its
\* deploy of beta before its deploy of alpha.
C24_Witness ==
    /\ PassOver
    /\ registry_images = << "beta", "alpha" >>
    /\ LoopLog(deployment_history, origin) =
          << << "deploy", "beta" >>, << "deploy", "alpha" >> >>

\* C25: a rollback record of the loop for a service stands behind a record of the
\* loop's successful deploy or restart of that service in the same pass, whose
\* health check answered false; a service whose deploy or restart failed, or was
\* found healthy, or that got no action or was not examined, has no rollback record
\* of the loop.
C25_RollbackOnlyAfterUnhealthy ==
    /\ \A s \in Services : \A k \in LoopRecs("rollback", s) :
          \E i \in DOMAIN trace, j \in 1..(k - 1) :
              /\ trace[i].service = s
              /\ trace[i].action \in {"deploy", "restart"}
              /\ trace[i].success = "true"
              /\ trace[i].healthy = "false"
              /\ origin[j] = "loop"
              /\ deployment_history[j] =
                    ActionRecord(trace[i].action, s, TRUE, "stdout")
    /\ \A i \in DOMAIN trace :
          (trace[i].success # "true" \/ trace[i].healthy # "false")
             => LoopRecs("rollback", trace[i].service) = {}
    /\ \A s \in Services \ HandledIn(trace) : LoopRecs("rollback", s) = {}

\* C25 witness: a pass deployed a service with success, found it unhealthy and
\* rolled it back with success; the two records are the only ones of the history.
C25_Witness ==
    /\ PassOver
    /\ Len(trace) = 1
    /\ trace[1].success = "true"
    /\ trace[1].healthy = "false"
    /\ deployment_history =
          << ActionRecord("deploy", trace[1].service, TRUE, "stdout"),
             ActionRecord("rollback", trace[1].service, TRUE, "stdout") >>
    /\ origin = << "loop", "loop" >>

\* C26: once an enabled pass has read the cluster, the cache holds a digest only
\* for services this pass has examined: every service the pass has yet to examine
\* has no stored digest, whatever an earlier pass had stored, and before the first
\* examination the cache holds no digest at all.
C26_CacheReplacedEachPass ==
    /\ pc = "await_digest"
          => \A s \in Services \ HandledIn(trace) :
                StoredDigest(deployments_state, s) = None
    /\ (pc = "await_digest" /\ trace = << >>)
          => \A n \in DOMAIN deployments_state : deployments_state[n] = None
    /\ (gate /\ queried \in {"ok", "failed"})
          => \A n \in DOMAIN deployments_state :
                deployments_state[n] # None => n \in HandledIn(trace)

\* C26 witness: a pass has read the cluster and is about to examine a service of
\* its cluster map whose digest the enabled pass before it had fetched, and the
\* cache holds no digest for it.
C26_Witness ==
    /\ pc = "await_digest"
    /\ trace = << >>
    /\ \E s \in ClusterMap :
          /\ registry_images[1] = s
          /\ last_seen[s] \in Digests
          /\ deployments_state[s] = None

\* C27: every rollback record of the loop lies directly behind the record of the
\* loop's successful deploy or restart of the same service: no record of another
\* service and no record of a manual request stands between the two.
C27_RollbackAdjacent ==
    \A s \in Services : \A k \in LoopRecs("rollback", s) :
        /\ k > 1
        /\ origin[k - 1] = "loop"
        /\ deployment_history[k - 1].service = s
        /\ deployment_history[k - 1].action \in {"deploy", "restart"}
        /\ deployment_history[k - 1].success

\* C27 witness: after the pass had read the cluster without the service, a manual
\* deploy of the service was served; the loop then deployed it, found it unhealthy
\* and rolled it back, and the manual record stands before the loop's two.
C27_Witness ==
    /\ queried = "ok"
    /\ Len(deployment_history) = 3
    /\ origin = << "other", "loop", "loop" >>
    /\ \E s \in Services \ ClusterMap :
          /\ deployment_history[1] = ActionRecord("deploy", s, TRUE, "stdout")
          /\ deployment_history[2] = ActionRecord("deploy", s, TRUE, "stdout")
          /\ deployment_history[3].action = "rollback"
          /\ deployment_history[3].service = s

\* C28: a pass acts on names of the list it fetched only: it examines no other
\* name, every record it appends is of a listed name, and a deployment of the
\* cluster map that the list does not name has no digest written.
C28_OnlyListedNames ==
    /\ HandledIn(trace) \subseteq Range(registry_images)
    /\ \A k \in DOMAIN deployment_history :
          origin[k] = "loop" => deployment_history[k].service \in Range(registry_images)
    /\ (gate /\ queried \in {"ok", "failed"})
          => \A n \in DOMAIN deployments_state \ Range(registry_images) :
                deployments_state[n] = None

\* C28 witness: a pass over a list that names one of the two deployments of its
\* cluster map has ended; it stored the digest of the listed one and left the other
\* without record and without digest.
C28_Witness ==
    /\ PassOver
    /\ Len(registry_images) = 1
    /\ ClusterMap = Services
    /\ deployments_state[registry_images[1]] \in Digests
    /\ \A n \in Services \ Range(registry_images) : deployments_state[n] = None
    /\ \A k \in DOMAIN origin : origin[k] # "loop"

\* C29: a manual deploy and a manual rollback each make one executor call and
\* append one record, of their own action and service, with no health check and no
\* rollback behind a manual deploy; the flag, last_check_time, the cache
\* and the loop's position are left as they were.
C29_ManualFrame ==
    [][/\ \A image \in Images :
             deploy_image(image)
                => /\ Len(deployment_history') = Len(deployment_history) + 1
                   /\ Len(calls') = Len(calls) + 1
                   /\ deployment_history'[Len(deployment_history')].action = "deploy"
                   /\ deployment_history'[Len(deployment_history')].service
                         = ServiceNameOf(image)
                   /\ UNCHANGED << auto_deploy_enabled, last_check_time,
                                   deployments_state, pc, registry_images >>
       /\ \A name \in Services :
             rollback_service(name)
                => /\ Len(deployment_history') = Len(deployment_history) + 1
                   /\ Len(calls') = Len(calls) + 1
                   /\ deployment_history'[Len(deployment_history')].action = "rollback"
                   /\ deployment_history'[Len(deployment_history')].service = name
                   /\ UNCHANGED << auto_deploy_enabled, last_check_time,
                                   deployments_state, pc, registry_images,
                                   cluster >>]_vars

\* C29 witness: while an enabled pass waited for its first digest, a manual deploy
\* and a manual rollback of a service were served; the history holds their two
\* records, and the cache still is the map read before, without the service.
C29_Witness ==
    /\ pc = "await_digest"
    /\ trace = << >>
    /\ auto_deploy_enabled
    /\ last_check_time = "set"
    /\ queried = "ok"
    /\ origin = << "other", "other" >>
    /\ \E s \in cluster \ ClusterMap :
          deployment_history = << ActionRecord("deploy", s, TRUE, "stdout"),
                                  ActionRecord("rollback", s, TRUE, "stdout") >>

\* C30: a manual deploy or rollback appends one record that carries the outcome of
\* its cluster command; when the command failed the record has success = false and
\* the request is answered with status 500 and the command's error text, when it
\* succeeded the record has success = true and the answer is the success body.
C30_ManualOutcome ==
    [][(\/ \E image \in Images : deploy_image_observed(image)
        \/ \E name \in Services : rollback_service_observed(name))
          => /\ Len(deployment_history') = Len(deployment_history) + 1
             /\ LET rec == deployment_history'[Len(deployment_history')]
                    call == calls'[Len(calls')]
                IN  /\ rec.success = call.ok
                    /\ IF call.ok
                       THEN /\ reply'.status = 200
                            /\ reply'.success
                            /\ reply'.service = rec.service
                       ELSE /\ reply'.status = 500
                            /\ reply'.detail = call.out
                            /\ rec.message = call.out
                            /\ call.out = "error text"]_vars

\* C30 witness: a manual rollback of a service that has no deployment failed; it was
\* answered with status 500 and the error text, and its failed record is the
\* newest of the history, behind the record of a successful manual deploy of
\* another service.
C30_Witness ==
    /\ reply = [status |-> 500, detail |-> "error text"]
    /\ Len(deployment_history) = 2
    /\ origin = << "other", "other" >>
    /\ deployment_history[1].action = "deploy"
    /\ deployment_history[1].success
    /\ deployment_history[2].action = "rollback"
    /\ ~deployment_history[2].success
    /\ deployment_history[2].message = "error text"
    /\ deployment_history[2].service \notin cluster
====
